---------------------------- MODULE Spec2Model ----------------------------
(***************************************************************************)
(* A model of azimuth (src/src/main.rs): a mouse/keyboard driven 3D        *)
(* pointer for the Stardust XR shell.                                      *)
(*                                                                         *)
(* The program runs on a single-threaded tokio runtime.  The pulse         *)
(* receiver callbacks enqueue into two bounded channels, `frame` drains    *)
(* them once per shell tick and spawns two kinds of detached tasks:        *)
(* handle_pointer_hit (ray-marches every input handler and publishes the   *)
(* closest ones with set_handler_order) and handle_keyboard_send           *)
(* (ray-marches every keyboard receiver and forwards the drained key       *)
(* events to the closest one).                                             *)
(*                                                                         *)
(* Units.  Angles are in tenths of a degree, so that one pixel of mouse    *)
(* motion (MOUSE_SENSITIVITY = 0.1 degree) is one unit.  Distances are in  *)
(* thousandths, so that the router's threshold 0.001 is one unit; they     *)
(* are totally ordered (a NaN distance is not modelled).                   *)
(***************************************************************************)
EXTENDS Integers, Sequences, FiniteSets, TLC

VARIABLES
    mouse_event_q,     \* the mouse channel: events sent and not yet received
    keyboard_event_q,  \* the keyboard channel
    yaw, pitch,        \* Azimuth.yaw, Azimuth.pitch
    datamap,           \* Azimuth.datamap: [select, grab, scroll]
    shell,             \* what the shell last received: rotation, datamap, handler_order
    hit_tasks,         \* the handle_pointer_hit tasks spawned so far, in spawn order
    key_tasks,         \* the handle_keyboard_send tasks spawned so far, in spawn order
    order_log,         \* history: the set_handler_order calls, in call order
    sent,              \* history: the send_event calls, in call order
    dropped,           \* history: how many try_send calls found the channel full
    next_key,          \* the identity of the next key event the keyboard delivers
    frames,            \* history: the number of frames run
    frame_log,         \* history: per frame, the mouse events drained and the calls made
    input_handlers,    \* the shell's input handler registry, in iteration order
    receivers,         \* the keyboard sender's receiver registry, in iteration order
    budget             \* the stimuli the environment still delivers: frames, pulses, keys

vars == <<mouse_event_q, keyboard_event_q, yaw, pitch, datamap, shell, hit_tasks,
          key_tasks, order_log, sent, dropped, next_key, frames, frame_log,
          input_handlers, receivers, budget>>

(***************************************************************************)
(* Program constants.                                                      *)
(***************************************************************************)
QUEUE_CAPACITY == 64

MOUSE_SENSITIVITY == 1

PITCH_LIMIT == 900

VALIDITY_THRESHOLD == 1

(***************************************************************************)
(* Bounds of the model.                                                    *)
(***************************************************************************)
\* the largest distance a ray march reports
MaxDist == 3

\* the input handlers of the registry in the one-pass resolver scenario
NumHandlers == 3

\* the receivers of the registry in the one-pass router scenario
NumReceivers == 2

\* the key events of the batch in the one-pass router scenario
MaxBatch == 2

\* the frames, handlers and key events of the whole-system scenario
MaxFrames == 2

SysHandlers == 1

SysReceivers == 1

SysKeys == 1

SysPulses == 1

\* the key events of the several-frames keyboard scenario
MaxKeys == 2

\* the events already queued, and the stimuli that follow, in the full-queue scenario
QueuePrefill == 62

QueueKeys == 3

QueuePulses == 1

\* the frames and the mouse pulses of the pointer scenario
PointerFrames == 2

PointerPulseCount == 3

\* the frames, the mouse pulses and the key events of the ticks scenario
TickFrames == 2

TickPulses == 1

TickKeys == 1

\* the input handlers of the registry in the pending-query scenario
HangHandlers == 2

Distances == 0..MaxDist

Min(a, b) == IF a < b THEN a ELSE b

Max(a, b) == IF a < b THEN b ELSE a

Range(s) == {s[i] : i \in 1..Len(s)}

Iota(n) == [i \in 1..n |-> i]

\* s is a prefix of t
IsPrefix(s, t) == Len(s) <= Len(t) /\ SubSeq(t, 1, Len(s)) = s

(***************************************************************************)
(* The channels: tokio::sync::mpsc::channel(64) and Sender::try_send.      *)
(***************************************************************************)
\* a variant that makes room by dropping the oldest event
TrySend_DropOldest(q, ev) ==
    IF Len(q) < QUEUE_CAPACITY THEN Append(q, ev) ELSE Append(Tail(q), ev)

\* try_send: appends unless the channel is full, and never waits
TrySend(q, ev) == IF Len(q) < QUEUE_CAPACITY THEN Append(q, ev) ELSE q

\* the try_send calls of one callback, in order
RECURSIVE TrySendAll(_, _)
TrySendAll(q, evs) ==
    IF evs = <<>> THEN q ELSE TrySendAll(TrySend(q, Head(evs)), Tail(evs))

\* how many of the try_send calls of one callback return Err(Full)
NumDropped(q, evs) == Len(q) + Len(evs) - Len(TrySendAll(q, evs))

(***************************************************************************)
(* enum MouseEvent.  One record shape for all variants: x, y of Moved,     *)
(* Scroll and ScrollDiscrete, c of LeftClick and RightClick.               *)
(***************************************************************************)
Moved(x, y) == [type |-> "Moved", x |-> x, y |-> y, c |-> FALSE]

LeftClick(c) == [type |-> "LeftClick", x |-> 0, y |-> 0, c |-> c]

RightClick(c) == [type |-> "RightClick", x |-> 0, y |-> 0, c |-> c]

Scroll(x, y) == [type |-> "Scroll", x |-> x, y |-> y, c |-> FALSE]

ScrollDiscrete(x, y) == [type |-> "ScrollDiscrete", x |-> x, y |-> y, c |-> FALSE]

\* input_event_codes
BTN_LEFT == 272

BTN_RIGHT == 273

NoPulse ==
    [delta |-> <<>>, buttons_down |-> <<>>, buttons_up |-> <<>>,
     scroll_distance |-> <<>>, scroll_steps |-> <<>>]

\* the decoded pulses the mouse delivers: each field is present (a one-element
\* sequence) or absent (the empty sequence); button 274 is the middle button
MousePulses ==
    { [NoPulse EXCEPT !.delta = <<(<<600, 600>>)>>],
      [NoPulse EXCEPT !.delta = <<(<<-600, -600>>)>>],
      [NoPulse EXCEPT !.buttons_down = <<(<<BTN_LEFT>>)>>],
      [NoPulse EXCEPT !.buttons_up = <<(<<274, BTN_LEFT>>)>>,
                      !.buttons_down = <<(<<BTN_RIGHT>>)>>],
      [NoPulse EXCEPT !.scroll_distance = <<(<<1, 2>>)>>],
      [NoPulse EXCEPT !.delta = <<(<<600, 600>>)>>,
                      !.buttons_down = <<(<<BTN_LEFT, BTN_RIGHT>>)>>,
                      !.scroll_distance = <<(<<1, 2>>)>>,
                      !.scroll_steps = <<(<<3, 4>>)>>] }

\* a pulse with every field
FullPulse ==
    [NoPulse EXCEPT !.delta = <<(<<300, 600>>)>>,
                    !.buttons_down = <<(<<BTN_LEFT>>)>>,
                    !.buttons_up = <<(<<BTN_RIGHT>>)>>,
                    !.scroll_distance = <<(<<1, 2>>)>>,
                    !.scroll_steps = <<(<<3, 4>>)>>]

\* pulses with one field each, the motion with different x and y
PointerPulses ==
    { [NoPulse EXCEPT !.delta = <<(<<300, 600>>)>>],
      [NoPulse EXCEPT !.delta = <<(<<-300, -600>>)>>],
      [NoPulse EXCEPT !.buttons_down = <<(<<BTN_LEFT>>)>>],
      [NoPulse EXCEPT !.buttons_up = <<(<<BTN_LEFT>>)>>],
      [NoPulse EXCEPT !.buttons_down = <<(<<BTN_RIGHT>>)>>],
      [NoPulse EXCEPT !.buttons_up = <<(<<BTN_RIGHT>>)>>],
      [NoPulse EXCEPT !.scroll_distance = <<(<<1, 2>>)>>],
      [NoPulse EXCEPT !.scroll_steps = <<(<<3, 4>>)>>] }

\* the events one button list enqueues
RECURSIVE ButtonEvents(_, _)
ButtonEvents(buttons, down) ==
    IF buttons = <<>> THEN <<>>
    ELSE (IF Head(buttons) = BTN_LEFT THEN <<LeftClick(down)>> ELSE <<>>)
         \o (IF Head(buttons) = BTN_RIGHT THEN <<RightClick(down)>> ELSE <<>>)
         \o ButtonEvents(Tail(buttons), down)

\* the events the mouse callback tries to send for one pulse, in order
MouseCallbackEvents(p) ==
    (IF p.delta # <<>> THEN <<Moved(p.delta[1][1], p.delta[1][2])>> ELSE <<>>)
    \o (IF p.buttons_down # <<>> THEN ButtonEvents(p.buttons_down[1], TRUE) ELSE <<>>)
    \o (IF p.buttons_up # <<>> THEN ButtonEvents(p.buttons_up[1], FALSE) ELSE <<>>)
    \o (IF p.scroll_distance # <<>>
        THEN <<Scroll(p.scroll_distance[1][1], p.scroll_distance[1][2])>> ELSE <<>>)
    \o (IF p.scroll_steps # <<>>
        THEN <<ScrollDiscrete(p.scroll_steps[1][1], p.scroll_steps[1][2])>> ELSE <<>>)

(***************************************************************************)
(* The pulse receiver callbacks (main).  A raw pulse decodes to an event   *)
(* (a one-element sequence) or does not decode (the empty sequence).       *)
(***************************************************************************)
\* a variant that applies a left button press at once instead of leaving it to frame
MouseCallback_AppliesSelect(raw) ==
    /\ budget.pulses > 0
    /\ budget' = [budget EXCEPT !.pulses = @ - 1]
    /\ IF raw = <<>>
       THEN UNCHANGED <<mouse_event_q, dropped, datamap>>
       ELSE /\ mouse_event_q' = TrySendAll(mouse_event_q, MouseCallbackEvents(raw[1]))
            /\ dropped' = [dropped EXCEPT
                   !.mouse = @ + NumDropped(mouse_event_q, MouseCallbackEvents(raw[1]))]
            /\ datamap' = IF raw[1].buttons_down # <<>>
                          THEN [datamap EXCEPT !.select = 1] ELSE datamap
    /\ UNCHANGED <<keyboard_event_q, yaw, pitch, shell, hit_tasks, key_tasks,
                   order_log, sent, next_key, frames, frame_log, input_handlers,
                   receivers>>

MouseCallback(raw) ==
    /\ budget.pulses > 0
    /\ budget' = [budget EXCEPT !.pulses = @ - 1]
    /\ IF raw = <<>>
       THEN UNCHANGED <<mouse_event_q, dropped>>
       ELSE /\ mouse_event_q' = TrySendAll(mouse_event_q, MouseCallbackEvents(raw[1]))
            /\ dropped' = [dropped EXCEPT
                   !.mouse = @ + NumDropped(mouse_event_q, MouseCallbackEvents(raw[1]))]
    /\ UNCHANGED <<keyboard_event_q, yaw, pitch, datamap, shell, hit_tasks, key_tasks,
                   order_log, sent, next_key, frames, frame_log, input_handlers,
                   receivers>>

\* a key event is identified by its arrival number
KeyboardCallback(raw) ==
    /\ budget.keys > 0
    /\ budget' = [budget EXCEPT !.keys = @ - 1]
    /\ next_key' = next_key + 1
    /\ IF raw = <<>>
       THEN UNCHANGED <<keyboard_event_q, dropped>>
       ELSE /\ keyboard_event_q' = TrySend(keyboard_event_q, raw[1])
            /\ dropped' = [dropped EXCEPT
                   !.keyboard = @ + NumDropped(keyboard_event_q, <<raw[1]>>)]
    /\ UNCHANGED <<mouse_event_q, yaw, pitch, datamap, shell, hit_tasks, key_tasks,
                   order_log, sent, frames, frame_log, input_handlers, receivers>>

(***************************************************************************)
(* Azimuth::frame: the fold of the drained mouse events.                   *)
(***************************************************************************)
Clamp(v, lo, hi) == Max(lo, Min(v, hi))

\* a call the frame makes on the pointer or the runtime, with what it passes
ShellCall(call, arg) == [call |-> call, arg |-> arg]

\* pointer.set_rotation(None, rotation_y * rotation_x): the quaternion stands as
\* the two angles it is built from
SetRotation(y, p) == ShellCall("set_rotation", <<y, p>>)

\* Datamap::serialize_pulse_data: the three fields in declaration order
SerializePulseData(d) == <<d.select, d.grab, d.scroll[1], d.scroll[2]>>

\* a variant that assigns the pitch where the code accumulates it (`=` for `+=`)
FoldMouseEvent_AssignPitch(st, ev) ==
    CASE ev.type = "Moved" ->
            LET y2 == st.yaw + ev.x * MOUSE_SENSITIVITY
                p2 == Clamp(ev.y * MOUSE_SENSITIVITY, -PITCH_LIMIT, PITCH_LIMIT)
            IN  [st EXCEPT !.yaw = y2, !.pitch = p2,
                           !.rotation = [yaw |-> y2, pitch |-> p2],
                           !.calls = Append(@, SetRotation(y2, p2))]
      [] ev.type = "LeftClick" ->
            [st EXCEPT !.datamap.select = IF ev.c THEN 1 ELSE 0]
      [] ev.type = "RightClick" ->
            [st EXCEPT !.datamap.grab = IF ev.c THEN 1 ELSE 0]
      [] ev.type = "Scroll" ->
            [st EXCEPT !.datamap.scroll = <<ev.x, ev.y>>]
      [] ev.type = "ScrollDiscrete" ->
            [st EXCEPT !.datamap.scroll = <<ev.x, ev.y>>]

\* a variant that builds the rotation before it clamps the pitch
FoldMouseEvent_RotationBeforeClamp(st, ev) ==
    CASE ev.type = "Moved" ->
            LET y2 == st.yaw + ev.x * MOUSE_SENSITIVITY
                raw == st.pitch + ev.y * MOUSE_SENSITIVITY
                p2 == Clamp(raw, -PITCH_LIMIT, PITCH_LIMIT)
            IN  [st EXCEPT !.yaw = y2, !.pitch = p2,
                           !.rotation = [yaw |-> y2, pitch |-> raw],
                           !.calls = Append(@, SetRotation(y2, raw))]
      [] ev.type = "LeftClick" ->
            [st EXCEPT !.datamap.select = IF ev.c THEN 1 ELSE 0]
      [] ev.type = "RightClick" ->
            [st EXCEPT !.datamap.grab = IF ev.c THEN 1 ELSE 0]
      [] ev.type = "Scroll" ->
            [st EXCEPT !.datamap.scroll = <<ev.x, ev.y>>]
      [] ev.type = "ScrollDiscrete" ->
            [st EXCEPT !.datamap.scroll = <<ev.x, ev.y>>]

\* a variant whose RightClick arm writes the field of the LeftClick arm
FoldMouseEvent_RightWritesSelect(st, ev) ==
    CASE ev.type = "Moved" ->
            LET y2 == st.yaw + ev.x * MOUSE_SENSITIVITY
                p2 == Clamp(st.pitch + ev.y * MOUSE_SENSITIVITY, -PITCH_LIMIT, PITCH_LIMIT)
            IN  [st EXCEPT !.yaw = y2, !.pitch = p2,
                           !.rotation = [yaw |-> y2, pitch |-> p2],
                           !.calls = Append(@, SetRotation(y2, p2))]
      [] ev.type = "LeftClick" ->
            [st EXCEPT !.datamap.select = IF ev.c THEN 1 ELSE 0]
      [] ev.type = "RightClick" ->
            [st EXCEPT !.datamap.select = IF ev.c THEN 1 ELSE 0]
      [] ev.type = "Scroll" ->
            [st EXCEPT !.datamap.scroll = <<ev.x, ev.y>>]
      [] ev.type = "ScrollDiscrete" ->
            [st EXCEPT !.datamap.scroll = <<ev.x, ev.y>>]

\* st = [yaw, pitch, datamap, rotation, calls]: the fields the loop body writes,
\* the rotation last passed to set_rotation, and the calls of the frame so far
FoldMouseEvent(st, ev) ==
    CASE ev.type = "Moved" ->
            LET y2 == st.yaw + ev.x * MOUSE_SENSITIVITY
                p2 == Clamp(st.pitch + ev.y * MOUSE_SENSITIVITY, -PITCH_LIMIT, PITCH_LIMIT)
            IN  [st EXCEPT !.yaw = y2, !.pitch = p2,
                           !.rotation = [yaw |-> y2, pitch |-> p2],
                           !.calls = Append(@, SetRotation(y2, p2))]
      [] ev.type = "LeftClick" ->
            [st EXCEPT !.datamap.select = IF ev.c THEN 1 ELSE 0]
      [] ev.type = "RightClick" ->
            [st EXCEPT !.datamap.grab = IF ev.c THEN 1 ELSE 0]
      [] ev.type = "Scroll" ->
            [st EXCEPT !.datamap.scroll = <<ev.x, ev.y>>]
      [] ev.type = "ScrollDiscrete" ->
            [st EXCEPT !.datamap.scroll = <<ev.x, ev.y>>]

\* `while let Ok(mouse_event) = self.mouse_event_rx.try_recv()`: the events
\* q[lo..hi] folded in channel order (two halves, the first evaluated before the
\* second, which bounds the evaluation depth)
RECURSIVE FoldMouseRange(_, _, _, _)
FoldMouseRange(st, q, lo, hi) ==
    IF lo > hi THEN st
    ELSE IF lo = hi THEN FoldMouseEvent(st, q[lo])
    ELSE LET mid == (lo + hi) \div 2
         IN  CHOOSE r \in {FoldMouseRange(half, q, mid + 1, hi) :
                              half \in {FoldMouseRange(st, q, lo, mid)}} : TRUE

\* the whole channel, until try_recv finds it empty
FoldMouse(st, q) == FoldMouseRange(st, q, 1, Len(q))

(***************************************************************************)
(* A ray march ends in a task failure (JoinError), a query error, or a     *)
(* RayMarchResult, of which the passes read hit() and                      *)
(* deepest_point_distance.                                                 *)
(***************************************************************************)
RayMarchOutcomes ==
    {[status |-> "JoinError", hit |-> FALSE, deepest_point_distance |-> 0],
     [status |-> "QueryError", hit |-> FALSE, deepest_point_distance |-> 0]}
    \cup [status : {"Ok"}, hit : BOOLEAN, deepest_point_distance : Distances]

\* Option<(Vec<InputHandler>, RayMarchResult)> and Option<(PulseReceiver, RayMarchResult)>
NoHit == [some |-> FALSE, handlers |-> <<>>, deepest_point_distance |-> 0]

SomeHit(handlers, res) ==
    [some |-> TRUE, handlers |-> handlers,
     deepest_point_distance |-> res.deepest_point_distance]

\* the tasks as spawned: nothing of their body has run
NewHitTask(frame) ==
    [frame |-> frame, pc |-> "spawned", candidates |-> <<>>, join |-> {},
     results |-> {}, closest_hits |-> NoHit]

NewKeyTask(frame, key_events) ==
    [frame |-> frame, pc |-> "spawned", candidates |-> <<>>, join |-> {},
     results |-> {}, closest_hit |-> NoHit, keyboard_events |-> key_events]

\* a variant without the `if !key_events.is_empty()` test
SpawnKeyTask_Always(tasks, frame, key_events) ==
    Append(tasks, NewKeyTask(frame, key_events))

\* the end of frame: `if !key_events.is_empty() { handle_keyboard_send(..) }`
SpawnKeyTask(tasks, frame, key_events) ==
    IF key_events # <<>> THEN Append(tasks, NewKeyTask(frame, key_events)) ELSE tasks

\* a variant in which frame awaits the tasks of the earlier frames before it runs
FrameCanRun_AwaitsPasses ==
    /\ budget.frames > 0
    /\ \A t \in 1..Len(hit_tasks) : hit_tasks[t].pc = "done"
    /\ \A t \in 1..Len(key_tasks) : key_tasks[t].pc = "done"

\* `fn frame(&mut self, _info: FrameInfo)` is not async and awaits nothing: it
\* runs whenever the shell ticks, whatever the tasks it spawned are doing
FrameCanRun == budget.frames > 0

\* a variant that keeps the scroll of the previous frame
ResetScroll_Keep(d) == d

\* `self.datamap.scroll = [0.0; 2].into()`, before the mouse events are drained
ResetScroll(d) == [d EXCEPT !.scroll = <<0, 0>>]

(***************************************************************************)
(* Azimuth::frame, whole: fold the mouse events, push the datamap, spawn   *)
(* the pointer hit task, drain the key events and spawn the keyboard task  *)
(* when there are any.  The early return (the client is gone) is a step    *)
(* that changes nothing.  The results of the shell calls are discarded     *)
(* (`let _ =`): `shell` holds what was last passed to them.                *)
(***************************************************************************)
Frame ==
    /\ FrameCanRun
    /\ budget' = [budget EXCEPT !.frames = @ - 1]
    /\ frames' = frames + 1
    /\ hit_tasks' = Append(hit_tasks, NewHitTask(frames + 1))
    /\ key_tasks' = SpawnKeyTask(key_tasks, frames + 1, keyboard_event_q)
    /\ LET st == FoldMouse([yaw |-> yaw, pitch |-> pitch,
                            datamap |-> ResetScroll(datamap),
                            rotation |-> shell.rotation,
                            calls |-> <<ShellCall("set_position", <<>>)>>],
                           mouse_event_q)
           blob == SerializePulseData(st.datamap)
       IN  /\ yaw' = st.yaw
           /\ pitch' = st.pitch
           /\ datamap' = st.datamap
           /\ shell' = [shell EXCEPT !.rotation = st.rotation, !.datamap = blob]
           /\ frame_log' = Append(frame_log,
                  [mouse_events |-> mouse_event_q,
                   calls |-> st.calls
                       \o <<ShellCall("set_datamap", blob),
                            ShellCall("handle_pointer_hit", <<>>)>>
                       \o (IF Len(key_tasks') > Len(key_tasks)
                           THEN <<ShellCall("handle_keyboard_send", keyboard_event_q)>>
                           ELSE <<>>)])
    /\ mouse_event_q' = <<>>
    /\ keyboard_event_q' = <<>>
    /\ UNCHANGED <<order_log, sent, dropped, next_key, input_handlers, receivers>>

(***************************************************************************)
(* Azimuth::handle_pointer_hit: the body of the spawned task.              *)
(***************************************************************************)
\* a variant that forgets `if !ray_info.hit() { continue }`
UpdateClosestHits_NoHitTest(closest_hits, handler, res) ==
    IF res.status # "Ok" THEN closest_hits
    ELSE IF closest_hits.some
         THEN IF res.deepest_point_distance = closest_hits.deepest_point_distance
              THEN [closest_hits EXCEPT !.handlers = Append(@, handler)]
              ELSE IF res.deepest_point_distance < closest_hits.deepest_point_distance
                   THEN SomeHit(<<handler>>, res)
                   ELSE closest_hits
         ELSE SomeHit(<<handler>>, res)

\* a variant in which a failed query throws away what the others reported
UpdateClosestHits_ErrorClears(closest_hits, handler, res) ==
    IF res.status # "Ok" THEN NoHit
    ELSE IF ~res.hit THEN closest_hits
    ELSE IF closest_hits.some
         THEN IF res.deepest_point_distance = closest_hits.deepest_point_distance
              THEN [closest_hits EXCEPT !.handlers = Append(@, handler)]
              ELSE IF res.deepest_point_distance < closest_hits.deepest_point_distance
                   THEN SomeHit(<<handler>>, res)
                   ELSE closest_hits
         ELSE SomeHit(<<handler>>, res)

\* the loop body of `while let Some(res) = join.join_next().await`
UpdateClosestHits(closest_hits, handler, res) ==
    IF res.status # "Ok" THEN closest_hits
    ELSE IF ~res.hit THEN closest_hits
    ELSE IF closest_hits.some
         THEN IF res.deepest_point_distance = closest_hits.deepest_point_distance
              THEN [closest_hits EXCEPT !.handlers = Append(@, handler)]
              ELSE IF res.deepest_point_distance < closest_hits.deepest_point_distance
                   THEN SomeHit(<<handler>>, res)
                   ELSE closest_hits
         ELSE SomeHit(<<handler>>, res)

\* the list passed to set_handler_order once join_next returns None
HandlerOrder(closest_hits) == IF closest_hits.some THEN closest_hits.handlers ELSE <<>>

\* pointer.set_handler_order(order), called by task t
SetHandlerOrder(t, order) ==
    /\ shell' = [shell EXCEPT !.handler_order = order]
    /\ order_log' = Append(order_log, [task |-> t, order |-> order])

\* The first poll of task t: it enumerates the registry and spawns one query per
\* handler that has a field and whose ray_march call returned Ok (`dispatched`).
\* With nothing spawned, join_next returns None at once and the task publishes.
\* The runtime (flavor = "current_thread") polls spawned tasks in spawn order.
HitTaskStart(t, dispatched) ==
    /\ hit_tasks[t].pc = "spawned"
    /\ \A u \in 1..(t - 1) : hit_tasks[u].pc # "spawned"
    /\ dispatched \subseteq Range(input_handlers)
    /\ IF dispatched = {}
       THEN /\ hit_tasks' = [hit_tasks EXCEPT ![t].candidates = input_handlers,
                                              ![t].pc = "done"]
            /\ SetHandlerOrder(t, HandlerOrder(hit_tasks[t].closest_hits))
       ELSE /\ hit_tasks' = [hit_tasks EXCEPT ![t].candidates = input_handlers,
                                              ![t].join = dispatched,
                                              ![t].pc = "joining"]
            /\ UNCHANGED <<shell, order_log>>
    /\ UNCHANGED <<mouse_event_q, keyboard_event_q, yaw, pitch, datamap, key_tasks, sent,
                   dropped, next_key, frames, frame_log, input_handlers, receivers,
                   budget>>

\* a variant that publishes inside the loop, after every result
HitJoinNext_PublishesEachResult(t, handler, res) ==
    /\ hit_tasks[t].pc = "joining"
    /\ handler \in hit_tasks[t].join
    /\ LET task == hit_tasks[t]
           closest_hits == UpdateClosestHits(task.closest_hits, handler, res)
           join == task.join \ {handler}
       IN  /\ hit_tasks' = [hit_tasks EXCEPT
                   ![t].closest_hits = closest_hits,
                   ![t].join = join,
                   ![t].results = @ \cup {[candidate |-> handler, result |-> res]},
                   ![t].pc = IF join = {} THEN "done" ELSE "joining"]
           /\ SetHandlerOrder(t, HandlerOrder(closest_hits))
    /\ UNCHANGED <<mouse_event_q, keyboard_event_q, yaw, pitch, datamap, key_tasks, sent,
                   dropped, next_key, frames, frame_log, input_handlers, receivers,
                   budget>>

\* join_next returns the outcome `res` of the query of `handler`: the loop body
\* runs, and when that was the last query the loop ends and the task publishes.
HitJoinNext(t, handler, res) ==
    /\ hit_tasks[t].pc = "joining"
    /\ handler \in hit_tasks[t].join
    /\ LET task == hit_tasks[t]
           closest_hits == UpdateClosestHits(task.closest_hits, handler, res)
           join == task.join \ {handler}
       IN  /\ hit_tasks' = [hit_tasks EXCEPT
                   ![t].closest_hits = closest_hits,
                   ![t].join = join,
                   ![t].results = @ \cup {[candidate |-> handler, result |-> res]},
                   ![t].pc = IF join = {} THEN "done" ELSE "joining"]
           /\ IF join = {}
              THEN SetHandlerOrder(t, HandlerOrder(closest_hits))
              ELSE UNCHANGED <<shell, order_log>>
    /\ UNCHANGED <<mouse_event_q, keyboard_event_q, yaw, pitch, datamap, key_tasks, sent,
                   dropped, next_key, frames, frame_log, input_handlers, receivers,
                   budget>>

(***************************************************************************)
(* Azimuth::handle_keyboard_send: the body of the spawned task.            *)
(***************************************************************************)
\* a variant that compares with `<` where the code has `<= 0.001`
UpdateClosestHit_AtThreshold(closest_hit, receiver, res) ==
    IF res.status # "Ok" THEN closest_hit
    ELSE IF ~res.hit \/ res.deepest_point_distance < VALIDITY_THRESHOLD THEN closest_hit
    ELSE IF closest_hit.some
         THEN IF res.deepest_point_distance < closest_hit.deepest_point_distance
              THEN SomeHit(<<receiver>>, res)
              ELSE closest_hit
         ELSE SomeHit(<<receiver>>, res)

UpdateClosestHit(closest_hit, receiver, res) ==
    IF res.status # "Ok" THEN closest_hit
    ELSE IF ~res.hit \/ res.deepest_point_distance <= VALIDITY_THRESHOLD THEN closest_hit
    ELSE IF closest_hit.some
         THEN IF res.deepest_point_distance < closest_hit.deepest_point_distance
              THEN SomeHit(<<receiver>>, res)
              ELSE closest_hit
         ELSE SomeHit(<<receiver>>, res)

\* a variant that falls back to the first receiver when nothing was hit
SendEvents_Fallback(t, closest_hit, keyboard_events, send_ok) ==
    [i \in 1..Len(keyboard_events) |->
        [task |-> t, receiver |-> IF closest_hit.some THEN closest_hit.handlers[1] ELSE 1,
         key_event |-> keyboard_events[i], ok |-> send_ok[i]]]

\* a variant whose loop ends at the first send_event error (`?` in place of `let _ =`)
SendEvents_StopAtError(t, closest_hit, keyboard_events, send_ok) ==
    IF closest_hit.some
    THEN LET n == Len(keyboard_events)
             last == IF \A i \in 1..n : send_ok[i] THEN n
                     ELSE CHOOSE i \in 1..n : ~send_ok[i] /\ \A j \in 1..(i - 1) : send_ok[j]
         IN  [i \in 1..last |->
                 [task |-> t, receiver |-> closest_hit.handlers[1],
                  key_event |-> keyboard_events[i], ok |-> send_ok[i]]]
    ELSE <<>>

\* the send_event calls of the final loop: one per key event, in order, each with
\* its own result (send_ok[i]), which the loop ignores
SendEvents(t, closest_hit, keyboard_events, send_ok) ==
    IF closest_hit.some
    THEN [i \in 1..Len(keyboard_events) |->
             [task |-> t, receiver |-> closest_hit.handlers[1],
              key_event |-> keyboard_events[i], ok |-> send_ok[i]]]
    ELSE <<>>

\* The first poll of task t: one query per receiver whose ray_march call returned Ok.
KeyTaskStart(t, dispatched, send_ok) ==
    /\ key_tasks[t].pc = "spawned"
    /\ \A u \in 1..(t - 1) : key_tasks[u].pc # "spawned"
    /\ dispatched \subseteq Range(receivers)
    /\ IF dispatched = {}
       THEN /\ key_tasks' = [key_tasks EXCEPT ![t].candidates = receivers,
                                              ![t].pc = "done"]
            /\ sent' = sent \o SendEvents(t, key_tasks[t].closest_hit,
                                          key_tasks[t].keyboard_events, send_ok)
       ELSE /\ key_tasks' = [key_tasks EXCEPT ![t].candidates = receivers,
                                              ![t].join = dispatched,
                                              ![t].pc = "joining"]
            /\ UNCHANGED sent
    /\ UNCHANGED <<mouse_event_q, keyboard_event_q, yaw, pitch, datamap, shell, hit_tasks,
                   order_log, dropped, next_key, frames, frame_log, input_handlers,
                   receivers, budget>>

KeyJoinNext(t, receiver, res, send_ok) ==
    /\ key_tasks[t].pc = "joining"
    /\ receiver \in key_tasks[t].join
    /\ LET task == key_tasks[t]
           closest_hit == UpdateClosestHit(task.closest_hit, receiver, res)
           join == task.join \ {receiver}
       IN  /\ key_tasks' = [key_tasks EXCEPT
                   ![t].closest_hit = closest_hit,
                   ![t].join = join,
                   ![t].results = @ \cup {[candidate |-> receiver, result |-> res]},
                   ![t].pc = IF join = {} THEN "done" ELSE "joining"]
           /\ sent' = IF join = {}
                      THEN sent \o SendEvents(t, closest_hit, task.keyboard_events, send_ok)
                      ELSE sent
    /\ UNCHANGED <<mouse_event_q, keyboard_event_q, yaw, pitch, datamap, shell, hit_tasks,
                   order_log, dropped, next_key, frames, frame_log, input_handlers,
                   receivers, budget>>

(***************************************************************************)
(* The state after Azimuth::create and main's set-up: empty channels, the  *)
(* pointer at identity, nothing spawned.  The registries and the stimuli   *)
(* to come are the scenario's.                                             *)
(***************************************************************************)
InitAzimuth ==
    /\ yaw = 0
    /\ pitch = 0
    /\ datamap = [select |-> 0, grab |-> 0, scroll |-> <<0, 0>>]
    /\ shell = [rotation |-> [yaw |-> 0, pitch |-> 0], datamap |-> <<>>,
                handler_order |-> <<>>]
    /\ hit_tasks = <<>>
    /\ key_tasks = <<>>
    /\ order_log = <<>>
    /\ sent = <<>>
    /\ dropped = [mouse |-> 0, keyboard |-> 0]
    /\ frames = 0
    /\ frame_log = <<>>

InitProgram ==
    /\ InitAzimuth
    /\ mouse_event_q = <<>>
    /\ keyboard_event_q = <<>>
    /\ next_key = 1

SendResults(t) == [1..Len(key_tasks[t].keyboard_events) -> BOOLEAN]

PointerPulse == \E raw \in {<<>>} \cup {<<p>> : p \in PointerPulses} : MouseCallback(raw)

\* the ticks scenario: a malformed or a full pulse; queries that are dispatched
\* or not and report a hit; send_event calls that succeed
TickMousePulse == \E raw \in {<<>>, <<FullPulse>>} : MouseCallback(raw)

TickOutcomes == {[status |-> "Ok", hit |-> TRUE, deepest_point_distance |-> MaxDist]}

TickHitJoin ==
    \E t \in 1..Len(hit_tasks) : \E handler \in hit_tasks[t].join :
        \E res \in TickOutcomes : HitJoinNext(t, handler, res)

TickKeyJoin ==
    \E t \in 1..Len(key_tasks) : \E receiver \in key_tasks[t].join :
        \E res \in TickOutcomes :
            KeyJoinNext(t, receiver, res, [i \in 1..Len(key_tasks[t].keyboard_events) |-> TRUE])

\* the pending-query scenario: a query of task t fails or reports a hit
HangOutcomes ==
    {[status |-> "QueryError", hit |-> FALSE, deepest_point_distance |-> 0],
     [status |-> "Ok", hit |-> TRUE, deepest_point_distance |-> MaxDist]}

HangJoinOf(t) ==
    /\ t \in 1..Len(hit_tasks)
    /\ \E handler \in hit_tasks[t].join : \E res \in HangOutcomes :
           HitJoinNext(t, handler, res)

HangJoin == \E t \in 1..Len(hit_tasks) : HangJoinOf(t)

MousePulse == \E raw \in {<<>>} \cup {<<p>> : p \in MousePulses} : MouseCallback(raw)

KeyPulse == \E raw \in {<<>>, <<next_key>>} : KeyboardCallback(raw)

HitStart ==
    \E t \in 1..Len(hit_tasks) : \E dispatched \in SUBSET Range(input_handlers) :
        HitTaskStart(t, dispatched)

HitJoin ==
    \E t \in 1..Len(hit_tasks) : \E handler \in hit_tasks[t].join :
        \E res \in RayMarchOutcomes : HitJoinNext(t, handler, res)

KeyStart ==
    \E t \in 1..Len(key_tasks) : \E dispatched \in SUBSET Range(receivers) :
        \E send_ok \in SendResults(t) : KeyTaskStart(t, dispatched, send_ok)

KeyJoin ==
    \E t \in 1..Len(key_tasks) : \E receiver \in key_tasks[t].join :
        \E res \in RayMarchOutcomes : \E send_ok \in SendResults(t) :
            KeyJoinNext(t, receiver, res, send_ok)

(***************************************************************************)
(* The whole system.                                                       *)
(***************************************************************************)
Init ==
    /\ InitProgram
    /\ input_handlers = Iota(SysHandlers)
    /\ receivers = Iota(SysReceivers)
    /\ budget = [frames |-> MaxFrames, pulses |-> SysPulses, keys |-> SysKeys]

Next == MousePulse \/ KeyPulse \/ Frame \/ HitStart \/ HitJoin \/ KeyStart \/ KeyJoin

Spec == Init /\ [][Next]_vars

(***************************************************************************)
(* One frame and the pointer hit task it spawns, for every registry.       *)
(***************************************************************************)
InitHitPass ==
    /\ InitProgram
    /\ input_handlers \in {Iota(n) : n \in 0..NumHandlers}
    /\ receivers = <<>>
    /\ budget = [frames |-> 1, pulses |-> 0, keys |-> 0]

NextHitPass == Frame \/ HitStart \/ HitJoin

SpecHitPass == InitHitPass /\ [][NextHitPass]_vars

(***************************************************************************)
(* One frame, the key events that arrive around it and the keyboard task   *)
(* it spawns, for every receiver registry.                                 *)
(***************************************************************************)
InitKeyPass ==
    /\ InitProgram
    /\ input_handlers = <<>>
    /\ receivers \in {Iota(n) : n \in 0..NumReceivers}
    /\ budget = [frames |-> 1, pulses |-> 0, keys |-> MaxBatch]

NextKeyPass == KeyPulse \/ Frame \/ KeyStart \/ KeyJoin

SpecKeyPass == InitKeyPass /\ [][NextKeyPass]_vars

(***************************************************************************)
(* Several frames, the key events that arrive between them and the         *)
(* keyboard tasks they spawn, which overlap.                               *)
(***************************************************************************)
InitKeys ==
    /\ InitProgram
    /\ input_handlers = <<>>
    /\ receivers \in {<<>>, <<1>>}
    /\ budget = [frames |-> MaxFrames, pulses |-> 0, keys |-> MaxKeys]

NextKeys == KeyPulse \/ Frame \/ KeyStart \/ KeyJoin

SpecKeys == InitKeys /\ [][NextKeys]_vars

(***************************************************************************)
(* Both channels nearly full: QueuePrefill events arrived since start-up   *)
(* and no frame ran yet; more events arrive and frames drain them.  The    *)
(* spawned tasks are not followed.                                         *)
(***************************************************************************)
InitQueue ==
    /\ InitAzimuth
    /\ mouse_event_q = [i \in 1..QueuePrefill |-> LeftClick(TRUE)]
    /\ keyboard_event_q = Iota(QueuePrefill)
    /\ next_key = QueuePrefill + 1
    /\ input_handlers = <<>>
    /\ receivers = <<>>
    /\ budget = [frames |-> MaxFrames, pulses |-> QueuePulses, keys |-> QueueKeys]

NextQueue == MousePulse \/ KeyPulse \/ Frame

SpecQueue == InitQueue /\ [][NextQueue]_vars

(***************************************************************************)
(* The pointer: mouse pulses and the frames that fold them.  The spawned   *)
(* tasks are not followed.                                                 *)
(***************************************************************************)
InitPointer ==
    /\ InitProgram
    /\ input_handlers = <<>>
    /\ receivers = <<>>
    /\ budget = [frames |-> PointerFrames, pulses |-> PointerPulseCount, keys |-> 0]

NextPointer == PointerPulse \/ Frame

SpecPointer == InitPointer /\ [][NextPointer]_vars

(***************************************************************************)
(* The ticks: both callbacks, the frames and the tasks of both kinds, with *)
(* one input handler and one keyboard receiver.                            *)
(***************************************************************************)
InitTicks ==
    /\ InitProgram
    /\ input_handlers = <<1>>
    /\ receivers = <<1>>
    /\ budget = [frames |-> TickFrames, pulses |-> TickPulses, keys |-> TickKeys]

NextTicks ==
    TickMousePulse \/ KeyPulse \/ Frame \/ HitStart \/ TickHitJoin \/ KeyStart \/ TickKeyJoin

SpecTicks == InitTicks /\ [][NextTicks]_vars

(***************************************************************************)
(* Two frames and their pointer hit tasks.  The runtime polls every        *)
(* spawned task; the queries of the second task complete, those of the     *)
(* first may stay pending for ever.                                        *)
(***************************************************************************)
InitHang ==
    /\ InitProgram
    /\ input_handlers \in {Iota(n) : n \in 0..HangHandlers}
    /\ receivers = <<>>
    /\ budget = [frames |-> 2, pulses |-> 0, keys |-> 0]

NextHang == Frame \/ HitStart \/ HangJoin

SpecHang ==
    InitHang /\ [][NextHang]_vars /\ WF_vars(HitStart) /\ WF_vars(HangJoinOf(2))

(***************************************************************************)
(* Properties of one pointer hit pass.                                     *)
(***************************************************************************)
\* the position of candidate c in the enumeration s
Position(s, c) == CHOOSE i \in 1..Len(s) : s[i] = c

\* the set_handler_order calls of task t
OrdersOf(t) == {i \in 1..Len(order_log) : order_log[i].task = t}

\* the candidates of task t whose query returned a result that is a hit
HitCandidates(t) ==
    {r \in hit_tasks[t].results : r.result.status = "Ok" /\ r.result.hit}

\* C1: the list a pointer hit pass publishes holds exactly the candidates whose
\* result is a hit at the minimum deepest_point_distance over all hits (each
\* once), and is empty when no candidate has a hit; whatever the completion order.
C1_WinnerSetIsMinimumHits ==
    \A i \in 1..Len(order_log) :
        LET order == order_log[i].order
            hits == HitCandidates(order_log[i].task)
            closest == {h \in hits : \A o \in hits :
                           h.result.deepest_point_distance
                               <= o.result.deepest_point_distance}
        IN  /\ Range(order) = {h.candidate : h \in closest}
            /\ Cardinality(Range(order)) = Len(order)
            /\ (hits = {} => order = <<>>)

\* two tied winners published, the later-enumerated first, a farther hit left out
C1_Witness ==
    \E i \in 1..Len(order_log) :
        /\ order_log[i].order = <<3, 1>>
        /\ \E h \in HitCandidates(order_log[i].task) : h.candidate = 2

\* C2: tied winners are published in discovery order, the order in which the
\* pass enumerated the candidates.
C2_TiesInDiscoveryOrder ==
    \A i \in 1..Len(order_log) :
        LET order == order_log[i].order
            candidates == hit_tasks[order_log[i].task].candidates
        IN  \A a, b \in 1..Len(order) :
                a < b => Position(candidates, order[a]) < Position(candidates, order[b])

\* C5: a pass whose queries partly fail still publishes, once: the published set
\* is the winner set computed over the candidates whose query succeeded, and no
\* candidate whose dispatch, query or task failed is published.
C5_FailuresAreIsolated ==
    \A t \in 1..Len(hit_tasks) :
        LET task == hit_tasks[t]
            succeeded == {r \in task.results : r.result.status = "Ok"}
            failed == Range(task.candidates) \ {r.candidate : r \in succeeded}
            hits == {r \in succeeded : r.result.hit}
            best == {h.result.deepest_point_distance : h \in hits}
        IN  /\ (task.pc = "joining" => task.join # {})
            /\ (task.pc = "done" =>
                  /\ Cardinality(OrdersOf(t)) = 1
                  /\ \A i \in OrdersOf(t) :
                        /\ Range(order_log[i].order) \cap failed = {}
                        /\ \A h \in hits :
                              h.candidate \in Range(order_log[i].order)
                                  <=> \A d \in best : h.result.deepest_point_distance <= d)

\* a pass with a failed task, a failed query and a hit, which it published
C5_Witness ==
    \E t \in 1..Len(hit_tasks) :
        /\ hit_tasks[t].pc = "done"
        /\ \E r \in hit_tasks[t].results : r.result.status = "JoinError"
        /\ \E r \in hit_tasks[t].results : r.result.status = "QueryError"
        /\ \E i \in OrdersOf(t) : Len(order_log[i].order) = 1

(***************************************************************************)
(* Properties of the pointer hit passes of several frames.                 *)
(***************************************************************************)
\* the pointer hit passes spawned by a frame and not yet published
Outstanding == {t \in 1..Len(hit_tasks) : hit_tasks[t].pc # "done"}

\* C3: at most one pointer hit pass is outstanding at any time.
C3_AtMostOnePassOutstanding == Cardinality(Outstanding) <= 1

\* C4: a pass never publishes after a pass spawned by a later frame has published,
\* so that with every pass finished the shell holds the ordering of the last one.
C4_LaterPassSupersedes ==
    /\ \A i, j \in 1..Len(order_log) : i < j => order_log[i].task < order_log[j].task
    /\ (Outstanding = {} /\ hit_tasks # <<>> =>
           \E i \in OrdersOf(Len(hit_tasks)) : shell.handler_order = order_log[i].order)

(***************************************************************************)
(* Properties of one keyboard pass.                                        *)
(***************************************************************************)
\* the results of keyboard task t that are a hit beyond the validity threshold
ValidResults(t) ==
    {r \in key_tasks[t].results :
        /\ r.result.status = "Ok"
        /\ r.result.hit
        /\ r.result.deepest_point_distance > VALIDITY_THRESHOLD}

\* the send_event calls of task t, in call order
SentBy(t) == SelectSeq(sent, LAMBDA e : e.task = t)

\* C6: the receiver a finished keyboard pass selected, if any, reported a hit at
\* a distance above the threshold, and no receiver with such a result is nearer.
C6_SelectedIsNearestValid ==
    \A t \in 1..Len(key_tasks) :
        (key_tasks[t].pc = "done" /\ key_tasks[t].closest_hit.some) =>
            \E r \in ValidResults(t) :
                /\ r.candidate = key_tasks[t].closest_hit.handlers[1]
                /\ r.result.deepest_point_distance
                       = key_tasks[t].closest_hit.deepest_point_distance
                /\ \A o \in ValidResults(t) :
                       r.result.deepest_point_distance <= o.result.deepest_point_distance

\* the nearer of two valid receivers selected: the second, the first being farther
C6_Witness ==
    \E t \in 1..Len(key_tasks) :
        /\ key_tasks[t].pc = "done"
        /\ key_tasks[t].closest_hit.some
        /\ key_tasks[t].closest_hit.handlers = <<2>>
        /\ Cardinality(ValidResults(t)) = 2
        /\ \E r \in ValidResults(t) :
               r.result.deepest_point_distance
                   > key_tasks[t].closest_hit.deepest_point_distance

\* C8: a finished keyboard pass with a winner called send_event once per event of
\* its batch, in batch order, always for the same receiver, whether or not some
\* of the calls returned an error.
C8_WholeBatchToWinnerInOrder ==
    \A t \in 1..Len(key_tasks) :
        (key_tasks[t].pc = "done" /\ key_tasks[t].closest_hit.some) =>
            /\ Len(SentBy(t)) = Len(key_tasks[t].keyboard_events)
            /\ \A i \in 1..Len(SentBy(t)) :
                  /\ SentBy(t)[i].key_event = key_tasks[t].keyboard_events[i]
                  /\ SentBy(t)[i].receiver = key_tasks[t].closest_hit.handlers[1]

\* a batch of two events forwarded although the first send_event failed
C8_Witness ==
    \E t \in 1..Len(key_tasks) :
        /\ key_tasks[t].pc = "done"
        /\ Len(key_tasks[t].keyboard_events) = 2
        /\ Len(SentBy(t)) = 2
        /\ ~SentBy(t)[1].ok
        /\ SentBy(t)[2].ok

(***************************************************************************)
(* Properties of the keyboard passes of several frames.                    *)
(***************************************************************************)
\* C7: a finished keyboard pass in which no receiver reported a hit above the
\* threshold forwarded nothing, and the events of its batch are nowhere kept:
\* not in the channel, not in another pass, and never forwarded by anyone.
C7_NoWinnerDropsBatch ==
    \A t \in 1..Len(key_tasks) :
        (key_tasks[t].pc = "done" /\ ValidResults(t) = {}) =>
            /\ SentBy(t) = <<>>
            /\ \A k \in Range(key_tasks[t].keyboard_events) :
                  /\ k \notin Range(keyboard_event_q)
                  /\ \A u \in 1..Len(key_tasks) :
                        u # t => k \notin Range(key_tasks[u].keyboard_events)
                  /\ \A i \in 1..Len(sent) : sent[i].key_event # k

\* a batch dropped by the first frame's pass, and the next frame's pass forwarded
C7_Witness ==
    /\ Len(key_tasks) = 2
    /\ key_tasks[1].pc = "done"
    /\ ValidResults(1) = {}
    /\ key_tasks[1].results # {}
    /\ key_tasks[2].pc = "done"
    /\ SentBy(2) # <<>>

\* C9: a frame whose keyboard drain is empty spawns no keyboard pass, a frame
\* whose drain is not empty spawns exactly one, which carries the drained events
\* in order, and nothing but a frame spawns one.
C9_PassOnlyForNonEmptyDrain ==
    [][ IF frames' = frames + 1
        THEN IF keyboard_event_q = <<>>
             THEN key_tasks' = key_tasks
             ELSE /\ Len(key_tasks') = Len(key_tasks) + 1
                  /\ SubSeq(key_tasks', 1, Len(key_tasks)) = key_tasks
                  /\ key_tasks'[Len(key_tasks')].keyboard_events = keyboard_event_q
                  /\ key_tasks'[Len(key_tasks')].frame = frames'
                  /\ key_tasks'[Len(key_tasks')].pc = "spawned"
        ELSE Len(key_tasks') = Len(key_tasks) ]_vars

\* the first frame drained nothing and spawned no pass, the second spawned one
C9_Witness ==
    /\ frames = 2
    /\ Len(key_tasks) = 1
    /\ key_tasks[1].frame = 2
    /\ Len(key_tasks[1].keyboard_events) = 2

(***************************************************************************)
(* Properties of the channels.                                             *)
(***************************************************************************)
\* C10: neither channel ever holds more than 64 events; a callback that finds
\* its channel full leaves it as it is (the new event is lost, the queued ones
\* and their order stay), and a callback always runs to its end: whenever the
\* environment has an event to deliver the callback can take it.
C10_FullQueueDropsNewest ==
    [][ /\ Len(mouse_event_q') <= QUEUE_CAPACITY
        /\ Len(keyboard_event_q') <= QUEUE_CAPACITY
        /\ (budget'.keys < budget.keys =>
               /\ IsPrefix(keyboard_event_q, keyboard_event_q')
               /\ (Len(keyboard_event_q) = QUEUE_CAPACITY =>
                      keyboard_event_q' = keyboard_event_q))
        /\ (budget'.pulses < budget.pulses =>
               /\ IsPrefix(mouse_event_q, mouse_event_q')
               /\ (Len(mouse_event_q) = QUEUE_CAPACITY =>
                      mouse_event_q' = mouse_event_q)) ]_vars

\* both channels full, and each has lost an event
C10_Witness ==
    /\ Len(keyboard_event_q) = QUEUE_CAPACITY
    /\ dropped.keyboard > 0
    /\ Len(mouse_event_q) = QUEUE_CAPACITY
    /\ dropped.mouse > 0

(***************************************************************************)
(* Properties of the pointer state.                                        *)
(***************************************************************************)
\* the Moved events among q, in order
MovedOf(q) == SelectSeq(q, LAMBDA e : e.type = "Moved")

\* the sums of the x and of the y of the first n events of a sequence of Moved
RECURSIVE SumDx(_, _)
SumDx(q, n) == IF n = 0 THEN 0 ELSE SumDx(q, n - 1) + q[n].x

RECURSIVE SumDy(_, _)
SumDy(q, n) == IF n = 0 THEN 0 ELSE SumDy(q, n - 1) + q[n].y

\* the first frame folded nothing but Moved events, starting from yaw = pitch = 0
FirstFrameOfMoves ==
    /\ frames = 1
    /\ MovedOf(frame_log[1].mouse_events) = frame_log[1].mouse_events

CallsOf(f, call) ==
    {i \in 1..Len(frame_log[f].calls) : frame_log[f].calls[i].call = call}

InPitchRange(p) == -PITCH_LIMIT <= p /\ p <= PITCH_LIMIT

\* C12: the pitch is always within [-90, 90], and so is the pitch of every
\* rotation passed to set_rotation, the one the shell holds included.
C12_PitchWithinLimits ==
    /\ InPitchRange(pitch)
    /\ InPitchRange(shell.rotation.pitch)
    /\ \A f \in 1..Len(frame_log) : \A i \in CallsOf(f, "set_rotation") :
           InPitchRange(frame_log[f].calls[i].arg[2])

\* two upward moves in one frame: the second rotation is pushed at the limit,
\* and a later frame left it there
C12_Witness ==
    /\ frames = 2
    /\ pitch = PITCH_LIMIT
    /\ \E i \in CallsOf(1, "set_rotation") :
           frame_log[1].calls[i].arg = <<600, PITCH_LIMIT>>

\* every mouse event drained so far, in order
RECURSIVE DrainedUpTo(_)
DrainedUpTo(f) == IF f = 0 THEN <<>> ELSE DrainedUpTo(f - 1) \o frame_log[f].mouse_events

\* the level the last event of the given type among q sets, `level` without one
LastLevel(q, type, level) ==
    LET edges == {i \in 1..Len(q) : q[i].type = type}
    IN  IF edges = {} THEN level
        ELSE IF q[CHOOSE i \in edges : \A j \in edges : j <= i].c THEN 1 ELSE 0

\* C13: select is the level of the last left-button edge processed so far (1 for
\* down, 0 for up), whatever came before it and however many frames ago, and 0
\* before any; grab likewise for the right button; neither depends on the edges
\* of the other button.
C13_ButtonLevelIsLastEdge ==
    /\ datamap.select = LastLevel(DrainedUpTo(frames), "LeftClick", 0)
    /\ datamap.grab = LastLevel(DrainedUpTo(frames), "RightClick", 0)

\* left down twice and right up without a down in one frame, then an idle frame
C13_Witness ==
    /\ frames = 2
    /\ frame_log[1].mouse_events = <<LeftClick(TRUE), LeftClick(TRUE), RightClick(FALSE)>>
    /\ frame_log[2].mouse_events = <<>>
    /\ datamap.select = 1
    /\ datamap.grab = 0

\* the scroll the last scroll event of q carries, (0, 0) without one
LastScroll(q) ==
    LET scrolls == {i \in 1..Len(q) : q[i].type \in {"Scroll", "ScrollDiscrete"}}
    IN  IF scrolls = {} THEN <<0, 0>>
        ELSE LET last == CHOOSE i \in scrolls : \A j \in scrolls : j <= i
             IN  <<q[last].x, q[last].y>>

\* C14: the datamap a frame publishes carries the scroll of the last scroll event
\* (of either kind) it drained, and (0, 0) when it drained none, whatever the
\* previous frame published; the scroll field holds the same between frames.
C14_ScrollIsMomentary ==
    \A f \in 1..Len(frame_log) :
        /\ \A i \in CallsOf(f, "set_datamap") :
               <<frame_log[f].calls[i].arg[3], frame_log[f].calls[i].arg[4]>>
                   = LastScroll(frame_log[f].mouse_events)
        /\ (f = frames => datamap.scroll = LastScroll(frame_log[f].mouse_events))

\* a frame that drained a continuous, then a discrete scroll and published the
\* discrete one, followed by a frame without scroll that published (0, 0)
C14_Witness ==
    /\ frames = 2
    /\ frame_log[1].mouse_events = <<Scroll(1, 2), ScrollDiscrete(3, 4)>>
    /\ \E i \in CallsOf(1, "set_datamap") : frame_log[1].calls[i].arg = <<0, 0, 3, 4>>
    /\ frame_log[2].mouse_events = <<LeftClick(TRUE)>>
    /\ \E i \in CallsOf(2, "set_datamap") : frame_log[2].calls[i].arg = <<1, 0, 0, 0>>

\* C16: every frame calls set_position, set_rotation and set_datamap, each before
\* it spawns the pointer hit task, whether or not anything changed.
C16_EveryTickPushesPoseAndDatamap ==
    \A f \in 1..Len(frame_log) :
        \E h \in CallsOf(f, "handle_pointer_hit") :
            /\ \E i \in CallsOf(f, "set_position") : i < h
            /\ \E i \in CallsOf(f, "set_rotation") : i < h
            /\ \E i \in CallsOf(f, "set_datamap") : i < h

(***************************************************************************)
(* Properties of the ticks.                                                *)
(***************************************************************************)
\* C15: a step that is not a frame (a callback or a step of a spawned task)
\* leaves yaw, pitch and the datamap as they are and pushes neither a rotation
\* nor a datamap; a callback moreover writes nothing to the shell, forwards
\* nothing and touches no task: it only enqueues.
C15_CallbacksOnlyEnqueue ==
    [][ /\ (frames' = frames =>
               /\ yaw' = yaw /\ pitch' = pitch /\ datamap' = datamap
               /\ shell'.rotation = shell.rotation /\ shell'.datamap = shell.datamap
               /\ frame_log' = frame_log)
        /\ (budget'.pulses < budget.pulses \/ budget'.keys < budget.keys =>
               /\ shell' = shell /\ order_log' = order_log /\ sent' = sent
               /\ hit_tasks' = hit_tasks /\ key_tasks' = key_tasks) ]_vars

\* after a frame, its two tasks have run to their end and a full pulse was
\* enqueued: the pointer state is still that of the frame
C15_Witness ==
    /\ frames = 1
    /\ Len(mouse_event_q) = 5
    /\ Len(hit_tasks) = 1 /\ hit_tasks[1].pc = "done"
    /\ Len(key_tasks) = 1 /\ key_tasks[1].pc = "done" /\ sent # <<>>
    /\ yaw = 0 /\ pitch = 0
    /\ datamap = [select |-> 0, grab |-> 0, scroll |-> <<0, 0>>]

\* C17: a frame can run whenever the shell ticks, also while queries of earlier
\* passes are pending; it runs to its end, leaving both channels empty and the
\* datamap published, and it completes none of the tasks spawned before it.
C17_TickNeverWaits ==
    /\ [](budget.frames > 0 => ENABLED Frame)
    /\ [][ frames' = frames + 1 =>
              /\ mouse_event_q' = <<>>
              /\ keyboard_event_q' = <<>>
              /\ shell'.datamap = SerializePulseData(datamap')
              /\ Len(hit_tasks') = Len(hit_tasks) + 1
              /\ SubSeq(hit_tasks', 1, Len(hit_tasks)) = hit_tasks
              /\ SubSeq(key_tasks', 1, Len(key_tasks)) = key_tasks ]_vars

\* the second frame drained both channels while the query of the first frame's
\* pass was pending, and it still is
C17_Witness ==
    /\ frames = 2
    /\ hit_tasks[1].pc = "joining"
    /\ frame_log[2].mouse_events # <<>>
    /\ \E t \in 1..Len(key_tasks) : key_tasks[t].frame = 2
    /\ mouse_event_q = <<>>
    /\ keyboard_event_q = <<>>

(***************************************************************************)
(* Properties of a pointer hit pass whose queries stay pending.            *)
(***************************************************************************)
\* C18: a pass calls set_handler_order exactly once, when the last of the
\* queries it dispatched has completed or failed, and not before: a pass with a
\* pending query has published nothing.  A pass whose queries all complete
\* does publish, also while a query of the pass of the frame before never
\* completes.
C18_PublishesOnceAfterAllQueries ==
    /\ [](\A t \in 1..Len(hit_tasks) :
             /\ (hit_tasks[t].pc = "done" =>
                    /\ Cardinality(OrdersOf(t)) = 1
                    /\ hit_tasks[t].join = {})
             /\ (hit_tasks[t].pc # "done" => OrdersOf(t) = {}))
    /\ (Len(hit_tasks) >= 2 ~> (Len(hit_tasks) >= 2 /\ hit_tasks[2].pc = "done"))

\* the second pass published after both its queries, one failed; the first pass
\* got one result, waits for the other and has published nothing
C18_Witness ==
    /\ Len(hit_tasks) = 2
    /\ hit_tasks[1].pc = "joining"
    /\ Cardinality(hit_tasks[1].results) = 1
    /\ OrdersOf(1) = {}
    /\ hit_tasks[2].pc = "done"
    /\ Cardinality(hit_tasks[2].results) = 2
    /\ \E r \in hit_tasks[2].results : r.result.status = "QueryError"
    /\ \E i \in OrdersOf(2) : Len(order_log[i].order) = 1

(***************************************************************************)
(* Properties of the keyboard passes under different completion orders.    *)
(***************************************************************************)
\* the selection of keyboard task t had its results arrived in the order in which
\* the task enumerated the first n receivers
RECURSIVE SelectInEnumerationOrder(_, _)
SelectInEnumerationOrder(t, n) ==
    IF n = 0 THEN NoHit
    ELSE LET receiver == key_tasks[t].candidates[n]
             before == SelectInEnumerationOrder(t, n - 1)
             arrived == {r \in key_tasks[t].results : r.candidate = receiver}
         IN  IF arrived = {} THEN before
             ELSE UpdateClosestHit(before, receiver, (CHOOSE r \in arrived : TRUE).result)

\* C19: the receiver a finished keyboard pass selected depends on the receivers
\* and their results only, not on the order in which the results arrived: it is
\* the one selected when they arrive in enumeration order.
C19_SelectionIsOrderIndependent ==
    \A t \in 1..Len(key_tasks) :
        key_tasks[t].pc = "done" =>
            key_tasks[t].closest_hit.handlers
                = SelectInEnumerationOrder(t, Len(key_tasks[t].candidates)).handlers

\* C20: send_event is called on the key events in the order in which they were
\* enqueued, also when they were drained by different frames.
C20_ForwardedInEnqueueOrder ==
    \A i, j \in 1..Len(sent) : i < j => sent[i].key_event < sent[j].key_event

=============================================================================
